---- MODULE Spec2Model ----
(***************************************************************************)
(* CocktailHelper: the recipe record (Cocktail.py), the CocktailDB lookups *)
(* (drink_lookup.py) and the Google-sheet writer with its batch loops      *)
(* (drink_recipe_maker.py).                                                *)
(*                                                                         *)
(* A Python str is a sequence of characters; the empty sequence is "".     *)
(* Only the characters the code tests for (carriage return, line feed,     *)
(* full stop, blank) are kept apart; any other element of a sequence, such *)
(* as "Gin", stands for a run of ordinary characters.                      *)
(***************************************************************************)
EXTENDS Integers, Sequences, FiniteSets, TLC

VARIABLES
    raw, recipe,                        \* CocktailRecipe(raw)
    rendering,                          \* str(recipe)
    response, drink,                    \* get_drink_by_name against one reply
    filter_response, drinks,            \* get_drinks_based_on_ingredient against one reply
    ws, call,                           \* one writer/scanner call on a sheet
    pc,                                 \* position in __main__
    drinks_to_insert, ingredients_to_insert,
    next_empty_row_ingredient, next_empty_row_instructions,
    next_empty_row_drink_by_ingredient,
    ingredients_sheet, instructions_sheet, drink_by_ingredient_sheet,
    requested,                          \* the two sets as the script starts with them
    attempts,                           \* every loop iteration so far, in order
    rate_limit_hits                     \* APIErrors raised so far

recipe_vars == <<raw, recipe, rendering>>
lookup_vars == <<response, drink, filter_response, drinks>>
grid_vars == <<ws, call>>
main_vars == <<pc, drinks_to_insert, ingredients_to_insert,
               next_empty_row_ingredient, next_empty_row_instructions,
               next_empty_row_drink_by_ingredient,
               ingredients_sheet, instructions_sheet, drink_by_ingredient_sheet,
               requested, attempts, rate_limit_hits>>
vars == <<recipe_vars, lookup_vars, grid_vars, main_vars>>

----------------------------------------------------------------------------
(* Strings *)

CR == "\r"
LF == "\n"
DOT == "."
SP == " "

\* Python's None.  Not a character, so no string equals it.
NULL == <<"None">>

CRLF == <<CR, LF>>
DOT_SP == <<DOT, SP>>

SeqsUpTo(S, n) == UNION {[1..k -> S] : k \in 0..n}

\* sep in s
Contains(s, sep) ==
    \E i \in 1..(Len(s) - Len(sep) + 1) : SubSeq(s, i, i + Len(sep) - 1) = sep

\* s.find(sep) + 1, for a sep that occurs in s
FirstIndex(s, sep) ==
    CHOOSE i \in 1..(Len(s) - Len(sep) + 1) :
        /\ SubSeq(s, i, i + Len(sep) - 1) = sep
        /\ \A j \in 1..(i - 1) : SubSeq(s, j, j + Len(sep) - 1) # sep

\* s.split(sep): cut at each occurrence of sep, scanning from the left
RECURSIVE split(_, _)
split(s, sep) ==
    IF ~Contains(s, sep) THEN <<s>>
    ELSE LET i == FirstIndex(s, sep)
         IN  <<SubSeq(s, 1, i - 1)>> \o split(SubSeq(s, i + Len(sep), Len(s)), sep)

\* s.strip(): leading and trailing whitespace removed
RECURSIVE strip(_)
strip(s) ==
    IF s = <<>> THEN s
    ELSE IF Head(s) \in {SP, CR, LF} THEN strip(Tail(s))
    ELSE IF s[Len(s)] \in {SP, CR, LF} THEN strip(SubSeq(s, 1, Len(s) - 1))
    ELSE s

----------------------------------------------------------------------------
(* Cocktail.py *)

NumSlots == 15

STR_DRINK == <<"strDrink", 0>>
STR_GLASS == <<"strGlass", 0>>
STR_INSTRUCTIONS == <<"strInstructions", 0>>
IngredientKey(n) == <<"strIngredient", n>>
MeasureKey(n) == <<"strMeasure", n>>

\* dict.get(key)
Get(d, key) == IF key \in DOMAIN d THEN d[key] ELSE NULL

\* check_requirements: the two union() calls return new sets that are dropped,
\* so required_keys stays the three-key set it was built with.
RequiredKeysNumbered ==
    {STR_GLASS, STR_DRINK, STR_INSTRUCTIONS}
        \cup {MeasureKey(n) : n \in 1..NumSlots}
        \cup {IngredientKey(n) : n \in 1..NumSlots}

required_keys == {STR_GLASS, STR_DRINK, STR_INSTRUCTIONS}

check_requirements(resp) == \A required_key \in required_keys : required_key \in DOMAIN resp

\* A dict in insertion order: a sequence of <<key, value>> with distinct keys.
DictKeys(d) == {d[i][1] : i \in 1..Len(d)}

\* d[k] = v: a new key goes last, a known key keeps its place
DictSet(d, k, v) ==
    IF k \in DictKeys(d)
    THEN [i \in 1..Len(d) |-> IF d[i][1] = k THEN <<k, v>> ELSE d[i]]
    ELSE Append(d, <<k, v>>)

TO_TASTE == <<"To Taste">>

ParseSlotUntrimmed(d, resp, n) ==
    LET ingredient == Get(resp, IngredientKey(n))
        amount == Get(resp, MeasureKey(n))
    IN  IF ingredient # NULL
        THEN DictSet(d, ingredient, IF amount = NULL THEN TO_TASTE ELSE amount)
        ELSE d

\* one pass of the loop body of _parse_ingredients
ParseSlot(d, resp, n) ==
    LET ingredient == Get(resp, IngredientKey(n))
        amount == Get(resp, MeasureKey(n))
    IN  IF ingredient # NULL
        THEN DictSet(d, ingredient, strip(IF amount = NULL THEN TO_TASTE ELSE amount))
        ELSE d

RECURSIVE ParseSlots(_, _)
ParseSlots(resp, n) ==
    IF n = 0 THEN <<>> ELSE ParseSlot(ParseSlots(resp, n - 1), resp, n)

_parse_ingredients(resp) == ParseSlots(resp, NumSlots)

_uses_line_breaks(instructions) == Contains(instructions, CRLF)

NonEmpty(s) == Len(s) # 0

ParseInstructionsFilterBoth(instructions) ==
    IF _uses_line_breaks(instructions)
    THEN SelectSeq(split(instructions, CRLF), NonEmpty)
    ELSE SelectSeq(split(instructions, DOT_SP), NonEmpty)

\* __init__, lines 30-35
ParseInstructions(instructions) ==
    IF _uses_line_breaks(instructions)
    THEN SelectSeq(split(instructions, CRLF), NonEmpty)
    ELSE split(instructions, DOT_SP)

Raised(kind) == [error |-> kind]

\* CocktailRecipe(resp): the record, or the exception __init__ raises.
\* `"\r\n" in None` is a TypeError.
CocktailRecipe(resp) ==
    IF ~check_requirements(resp) THEN Raised("ValueError")
    ELSE IF Get(resp, STR_INSTRUCTIONS) = NULL THEN Raised("TypeError")
    ELSE [error |-> "none",
          name |-> Get(resp, STR_DRINK),
          glass |-> Get(resp, STR_GLASS),
          ingredients |-> _parse_ingredients(resp),
          instructions |-> ParseInstructions(Get(resp, STR_INSTRUCTIONS))]

IsRecipe(r) == r.error = "none"

\* str(n) of a natural number: its decimal digits
Digit(d) == <<"0", "1", "2", "3", "4", "5", "6", "7", "8", "9">>[d + 1]
RECURSIVE Str(_)
Str(n) == IF n < 10 THEN <<Digit(n)>> ELSE Str(n \div 10) \o <<Digit(n % 10)>>

\* The loop of lines 82-83 over the first n entries.
RECURSIVE IngredientLines(_, _)
IngredientLines(ingredients, n) ==
    IF n = 0 THEN <<>>
    ELSE IngredientLines(ingredients, n - 1)
             \o <<"-", SP>> \o ingredients[n][1] \o <<SP, ":", SP>> \o ingredients[n][2] \o <<LF>>

\* The loop of lines 85-86 over the first n steps, numbered from `first`.
RECURSIVE InstructionLines(_, _, _)
InstructionLines(instructions, n, first) ==
    IF n = 0 THEN <<>>
    ELSE InstructionLines(instructions, n - 1, first)
             \o Str(n - 1 + first) \o <<")", SP>> \o instructions[n] \o <<LF>>

StrNumberedFromZero(r) ==
    <<"Name:", SP>> \o r.name \o <<LF>>
        \o <<"Ingredients:", LF>> \o IngredientLines(r.ingredients, Len(r.ingredients))
        \o <<"Instructions:", LF>> \o InstructionLines(r.instructions, Len(r.instructions), 0)

\* CocktailRecipe.__str__
__str__(r) ==
    <<"Name:", SP>> \o r.name \o <<LF>>
        \o <<"Ingredients:", LF>> \o IngredientLines(r.ingredients, Len(r.ingredients))
        \o <<"Instructions:", LF>> \o InstructionLines(r.instructions, Len(r.instructions), 1)

----------------------------------------------------------------------------
(* drink_lookup.py *)

\* json.loads(response.content): a mapping that may hold "drinks", whose value
\* is null or a list.
NoKey == [key |-> FALSE, null |-> FALSE, list |-> <<>>]
NullDrinks == [key |-> TRUE, null |-> TRUE, list |-> <<>>]
Drinks(l) == [key |-> TRUE, null |-> FALSE, list |-> l]

\* data.get("drinks") is None
DrinksIsNone(data) == ~data.key \/ data.null

\* get_drink_by_name(name); search[name] is the decoded reply to the request.
\* [][0] is an IndexError.
get_drink_by_name(name, search) ==
    LET data == search[name]
    IN  IF DrinksIsNone(data) THEN Raised("ValueError")
        ELSE IF Len(data.list) = 0 THEN Raised("IndexError")
        ELSE CocktailRecipe(data.list[1])

Min(a, b) == IF a < b THEN a ELSE b

\* The first exception among the lookups, or the list of records.
RECURSIVE LookupAll(_, _)
LookupAll(drink_names, search) ==
    IF drink_names = <<>> THEN [error |-> "none", list |-> <<>>]
    ELSE LET first == get_drink_by_name(Head(drink_names), search)
             rest == LookupAll(Tail(drink_names), search)
         IN  IF ~IsRecipe(first) THEN [error |-> first.error, list |-> <<>>]
             ELSE IF rest.error # "none" THEN rest
             ELSE [error |-> "none", list |-> <<first>> \o rest.list]

get_drinks_based_on_ingredient_unlimited(ingredient, limit, filter, search) ==
    LET reply == filter[ingredient]
    IN  IF reply.empty_body THEN [error |-> "ValueError", list |-> <<>>]
        ELSE IF DrinksIsNone(reply.data) THEN [error |-> "ValueError", list |-> <<>>]
        ELSE LookupAll(reply.data.list, search)

\* get_drinks_based_on_ingredient(ingredient, limit); filter[ingredient] is the
\* reply to the filter request: its body may be empty, else it decodes to a
\* mapping whose "drinks" lists name stubs.
get_drinks_based_on_ingredient(ingredient, limit, filter, search) ==
    LET reply == filter[ingredient]
    IN  IF reply.empty_body THEN [error |-> "ValueError", list |-> <<>>]
        ELSE IF DrinksIsNone(reply.data) THEN [error |-> "ValueError", list |-> <<>>]
        ELSE LookupAll(SubSeq(reply.data.list, 1, Min(limit, Len(reply.data.list))), search)

----------------------------------------------------------------------------
(* drink_recipe_maker.py: the sheet *)

\* A worksheet: the cells written so far, keyed by <<row, col>>.  A cell never
\* written reads as "".
BlankSheet == [p \in {} |-> <<>>]

\* ws.cell(row, col).value
cell(sheet, row, col) == IF <<row, col>> \in DOMAIN sheet THEN sheet[<<row, col>>] ELSE <<>>

\* ws.update_cell(row, col, value), when it does not raise
update_cell(sheet, row, col, value) ==
    [p \in DOMAIN sheet \cup {<<row, col>>} |-> IF p = <<row, col>> THEN value ELSE sheet[p]]

\* The first n of a sequence of update_cell(row, col, value) calls, in order.
RECURSIVE Apply(_, _, _)
Apply(sheet, calls, n) ==
    IF n = 0 THEN sheet
    ELSE update_cell(Apply(sheet, calls, n - 1), calls[n][1], calls[n][2], calls[n][3])

TruthyUnlessZero(value) == value # <<>> /\ value # <<"0">>

\* `if value:` - a str is true unless empty
Truthy(value) == value # <<>>

is_row_empty(sheet, row, min_horizontal_empty_cells) ==
    \A col \in 1..min_horizontal_empty_cells : ~Truthy(cell(sheet, row, col))

\* find_next_empty_row_index from `row` on.  The rows below are taken from
\* range(row + 1, empty_rows_below + 1).
RECURSIVE Scan(_, _, _, _)
Scan(sheet, empty_rows_below, min_horizontal_empty_cells, row) ==
    IF /\ is_row_empty(sheet, row, min_horizontal_empty_cells)
       /\ \A row_below \in (row + 1)..empty_rows_below :
              is_row_empty(sheet, row_below, min_horizontal_empty_cells)
    THEN row
    ELSE Scan(sheet, empty_rows_below, min_horizontal_empty_cells, row + 1)

find_next_empty_row_index(sheet, empty_rows_below, min_horizontal_empty_cells, start_index) ==
    Scan(sheet, empty_rows_below, min_horizontal_empty_cells, start_index)

----------------------------------------------------------------------------
(* drink_recipe_maker.py: the writers *)

(* A writer reads the sheet only before its first write (and only when no  *)
(* row is passed), so it is the list of update_cell calls it makes, in     *)
(* order, followed by the row it returns or the exception it raises.       *)

top_margin_row == 3

\* `row is None`
NoRow == -1

ZERO == <<"0">>

Effect(calls, ret, error) == [calls |-> calls, ret |-> ret, error |-> error]

\* write_separator_line(ws, separator_row_index, width, separator)
write_separator_line(separator_row_index, width, separator) ==
    [col \in 1..width |-> <<separator_row_index, col, separator>>]

HeaderAboveMargin(title, sheet, row, width) ==
    LET start == IF row = NoRow THEN find_next_empty_row_index(sheet, 1, 3, 1) ELSE row
        separated == start > top_margin_row
        title_row == IF separated THEN start + 1 ELSE start
    IN  Effect((IF separated THEN write_separator_line(start, width, ZERO) ELSE <<>>)
                   \o <<<<title_row, 1, title>>>>,
               title_row + 1, "none")

\* The header both header writers share: a separator of `width` cells unless
\* the row lies above top_margin_row, then `title` in column 1.
Header(title, sheet, row, width) ==
    LET start == IF row = NoRow THEN find_next_empty_row_index(sheet, 1, 3, 1) ELSE row
        separated == start >= top_margin_row
        title_row == IF separated THEN start + 1 ELSE start
    IN  Effect((IF separated THEN write_separator_line(start, width, ZERO) ELSE <<>>)
                   \o <<<<title_row, 1, title>>>>,
               title_row + 1, "none")

write_cocktail_header_return_next_row(cocktail_recipe, sheet, row) ==
    Header(cocktail_recipe.name, sheet, row, 3)

write_ingredient_header_width_three(ingredient, sheet, row) ==
    Header(ingredient, sheet, row, 3)

write_ingredient_header_return_next_row(ingredient, sheet, row) ==
    Header(ingredient, sheet, row, 2)

\* The two update_cell calls of each pass of the loop of lines 106-109.
IngredientCalls(ingredients, current_row) ==
    [i \in 1..(2 * Len(ingredients)) |->
        LET k == (i + 1) \div 2
        IN  IF i % 2 = 1 THEN <<current_row + k - 1, 2, ingredients[k][1]>>
                         ELSE <<current_row + k - 1, 3, ingredients[k][2]>>]

IngredientsRowNotAdvanced(cocktail_recipe, sheet, next_empty_row) ==
    LET header == write_cocktail_header_return_next_row(cocktail_recipe, sheet, next_empty_row)
        ingredients == cocktail_recipe.ingredients
    IN  Effect(header.calls \o
                   [i \in 1..(2 * Len(ingredients)) |->
                       IF i % 2 = 1 THEN <<header.ret, 2, ingredients[(i + 1) \div 2][1]>>
                                    ELSE <<header.ret, 3, ingredients[(i + 1) \div 2][2]>>],
               header.ret, "none")

write_cocktail_ingredients_into_spreadsheet_return_next_row(cocktail_recipe, sheet, next_empty_row) ==
    LET header == write_cocktail_header_return_next_row(cocktail_recipe, sheet, next_empty_row)
        ingredients == cocktail_recipe.ingredients
    IN  Effect(header.calls \o IngredientCalls(ingredients, header.ret),
               header.ret + Len(ingredients), "none")

ColumnTwoCallsFromNextRow(texts, current_row) ==
    [k \in 1..Len(texts) |-> <<current_row + k, 2, texts[k]>>]

\* One update_cell(current_row, 2, text) per text, a row each.
ColumnTwoCalls(texts, current_row) ==
    [k \in 1..Len(texts) |-> <<current_row + k - 1, 2, texts[k]>>]

write_cocktail_instructions_return_next_row(cocktail_recipe, sheet, row) ==
    LET header == write_cocktail_header_return_next_row(cocktail_recipe, sheet, row)
        instructions == cocktail_recipe.instructions
    IN  Effect(header.calls \o ColumnTwoCalls(instructions, header.ret),
               header.ret + Len(instructions), "none")

\* The lookup follows the header: an exception of the lookup leaves the
\* header written.
write_cocktail_names_based_on_ingredient_return_next_row(ingredient, sheet, next_empty_row, limit, filter, search) ==
    LET header == write_ingredient_header_return_next_row(ingredient, sheet, next_empty_row)
        found == get_drinks_based_on_ingredient(ingredient, limit, filter, search)
        names == [k \in 1..Len(found.list) |-> found.list[k].name]
    IN  IF found.error # "none" THEN Effect(header.calls, NoRow, found.error)
        ELSE Effect(header.calls \o ColumnTwoCalls(names, header.ret),
                    header.ret + Len(names), "none")

\* An effect run against a sheet that accepts `budget` more update_cell calls
\* and answers the next one with gspread.exceptions.APIError.
Run(sheet, effect, budget) ==
    IF budget < Len(effect.calls)
    THEN [sheet |-> Apply(sheet, effect.calls, budget), ret |-> NoRow, error |-> "APIError"]
    ELSE [sheet |-> Apply(sheet, effect.calls, Len(effect.calls)),
          ret |-> effect.ret, error |-> effect.error]

----------------------------------------------------------------------------
(* Inputs *)

MaxInstrLen == 4
MaxUsedSlots == 2
MaxReplyLen == 2
MaxGridRow == 3
MaxRowsBelow == 2

InstrChars == {CR, LF, DOT, SP, "a"}
InstrInputs == SeqsUpTo(InstrChars, MaxInstrLen) \cup {NULL}
IngredientInputs == {NULL, <<>>, <<"Gin">>, <<"Lime">>}
MeasureInputs == {NULL, <<>>, <<SP>>, <<"1 oz">>, <<"1 oz", SP>>}

\* A reply entry with every key: the first Len(slots) numbered slots as given,
\* the others null.
MkRaw(name, glass, instructions, slots) ==
    [k \in RequiredKeysNumbered |->
        CASE k = STR_DRINK -> name
          [] k = STR_GLASS -> glass
          [] k = STR_INSTRUCTIONS -> instructions
          [] k[1] = "strIngredient" -> IF k[2] <= Len(slots) THEN slots[k[2]][1] ELSE NULL
          [] OTHER -> IF k[2] <= Len(slots) THEN slots[k[2]][2] ELSE NULL]

Without(resp, key) == [k \in DOMAIN resp \ {key} |-> resp[k]]

MojitoRaw ==
    MkRaw(<<"Mojito">>, <<"Highball glass">>, <<"Muddle", DOT, SP, "Top", DOT>>,
          <<<<<<"Light rum">>, <<"2-3 oz", SP>>>>, <<<<"Lime">>, <<"Juice of 1", SP>>>>,
            <<<<"Mint">>, <<"2-4", SP>>>>, <<<<"Soda water">>, NULL>>,
            <<<<"Sugar">>, <<"2 tsp">>>>>>)
MartiniRaw ==
    MkRaw(<<"Martini">>, <<"Cocktail glass">>, <<"Stir", CR, LF, "Strain", CR, LF>>,
          <<<<<<"Gin">>, <<"1 2/3 oz">>>>, <<<<"Dry Vermouth">>, <<"1/3 oz">>>>>>)
TomCollinsRaw ==
    MkRaw(<<"Tom Collins">>, <<"Collins glass">>, <<"Shake", CR, LF, "Stir", DOT>>,
          <<<<<<"Gin">>, <<"2 oz">>>>>>)
WaterRaw == MkRaw(<<"Water">>, <<"Glass">>, <<"Pour">>, <<>>)

FixtureRaws == {MojitoRaw, MartiniRaw, TomCollinsRaw, WaterRaw}

RawInputs ==
    {MkRaw(<<"Drink">>, <<"Glass">>, i, <<<<<<"Gin">>, <<"1 oz">>>>>>) : i \in InstrInputs}
        \cup {MkRaw(<<"Drink">>, <<"Glass">>, <<"Stir">>, s) :
                 s \in [1..MaxUsedSlots -> IngredientInputs \X MeasureInputs]}
        \cup {Without(r, k) : r \in FixtureRaws, k \in RequiredKeysNumbered}
        \cup FixtureRaws

----------------------------------------------------------------------------
(* Specifications *)

Pending == [error |-> "pending"]
NoCall == [op |-> "none"]

RecipeIdle == raw = <<>> /\ recipe = Pending /\ rendering = NULL
LookupIdle ==
    /\ response = NoKey /\ drink = Pending
    /\ filter_response = NoKey /\ drinks = Pending
GridIdle == ws = BlankSheet /\ call = NoCall
MainIdle ==
    /\ pc = "idle"
    /\ drinks_to_insert = {} /\ ingredients_to_insert = {}
    /\ requested = [drinks |-> {}, ingredients |-> {}]
    /\ next_empty_row_ingredient = 2
    /\ next_empty_row_instructions = 2
    /\ next_empty_row_drink_by_ingredient = 2
    /\ ingredients_sheet = BlankSheet
    /\ instructions_sheet = BlankSheet
    /\ drink_by_ingredient_sheet = BlankSheet
    /\ attempts = <<>>
    /\ rate_limit_hits = 0

(* CocktailRecipe(raw) for each input *)

InitRecipe ==
    /\ raw \in RawInputs /\ recipe = Pending /\ rendering = NULL
    /\ LookupIdle /\ GridIdle /\ MainIdle

Construct ==
    /\ recipe = Pending
    /\ recipe' = CocktailRecipe(raw)
    /\ UNCHANGED <<raw, rendering, lookup_vars, grid_vars, main_vars>>

\* str(recipe) of a record that was constructed
Render ==
    /\ recipe # Pending /\ IsRecipe(recipe)
    /\ rendering = NULL
    /\ rendering' = __str__(recipe)
    /\ UNCHANGED <<raw, recipe, lookup_vars, grid_vars, main_vars>>

NextRecipe == Construct \/ Render

SpecRecipe == InitRecipe /\ [][NextRecipe]_vars

(* get_drink_by_name against each reply of the search request *)

LookupName == <<"Mojito">>

ReplyRaws ==
    FixtureRaws \cup
        {Without(MojitoRaw, STR_GLASS), Without(MartiniRaw, STR_DRINK),
         Without(TomCollinsRaw, IngredientKey(1)),
         MkRaw(<<"Water">>, <<"Glass">>, NULL, <<>>)}

ReplyInputs == {NoKey, NullDrinks} \cup {Drinks(l) : l \in SeqsUpTo(ReplyRaws, MaxReplyLen)}

InitLookup ==
    /\ response \in ReplyInputs /\ drink = Pending
    /\ filter_response = NoKey /\ drinks = Pending
    /\ RecipeIdle /\ GridIdle /\ MainIdle

LookupByName ==
    /\ drink = Pending
    /\ drink' = get_drink_by_name(LookupName, [n \in {LookupName} |-> response])
    /\ UNCHANGED <<response, filter_response, drinks, recipe_vars, grid_vars, main_vars>>

NextLookup == LookupByName

SpecLookup == InitLookup /\ [][NextLookup]_vars

MaxStubs == 3
MaxLimit == 3

\* The remote source, as the script finds it.
SearchDB ==
    [n \in {<<"Mojito">>, <<"Martini">>, <<"Tom Collins">>, <<"Daiquiri">>} |->
        CASE n = <<"Mojito">> -> Drinks(<<MojitoRaw>>)
          [] n = <<"Martini">> -> Drinks(<<MartiniRaw, TomCollinsRaw>>)
          [] n = <<"Tom Collins">> -> Drinks(<<TomCollinsRaw>>)
          [] OTHER -> NullDrinks]

FilterReply(empty_body, data) == [empty_body |-> empty_body, data |-> data]

FilterDB ==
    [i \in {<<"Gin">>, <<"Rum">>, <<"Tea">>} |->
        CASE i = <<"Gin">> -> FilterReply(FALSE, Drinks(<<<<"Martini">>, <<"Tom Collins">>>>))
          [] i = <<"Rum">> -> FilterReply(FALSE, Drinks(<<<<"Mojito">>>>))
          [] OTHER -> FilterReply(TRUE, NoKey)]

(* One call of the scanner or of a writer on each sheet *)

RowInputs ==
    {<<<<>>, <<>>, <<>>>>, <<<<"x">>, <<>>, <<>>>>, <<<<>>, <<>>, <<"x">>>>}

\* The sheet whose rows 1..Len(rows) hold the given cells.
SheetOf(rows) ==
    [p \in {q \in (1..Len(rows)) \X (1..3) : rows[q[1]][q[2]] # <<>>} |-> rows[p[1]][p[2]]]

SheetInputs == {SheetOf(rows) : rows \in [1..MaxGridRow -> RowInputs]}
StartRowInputs == 1..(MaxGridRow + 2)
RecipeInputs == {CocktailRecipe(r) : r \in FixtureRaws}

InitGrid == ws \in SheetInputs /\ call = NoCall /\ RecipeIdle /\ LookupIdle /\ MainIdle

CallFind ==
    /\ call = NoCall
    /\ \E below \in 0..MaxRowsBelow, cells \in 1..3, start \in StartRowInputs :
          call' = [op |-> "find_next_empty_row_index",
                   empty_rows_below |-> below,
                   min_horizontal_empty_cells |-> cells,
                   start_index |-> start,
                   ret |-> find_next_empty_row_index(ws, below, cells, start)]
    /\ UNCHANGED <<ws, recipe_vars, lookup_vars, main_vars>>

\* `effect` run on ws with each budget of accepted writes, the last being
\* that of a run no write of which fails.
CallWriter(op, cocktail_recipe, row, effect) ==
    \E budget \in 0..Len(effect.calls) :
        LET out == Run(ws, effect, budget)
        IN  /\ call' = [op |-> op, recipe |-> cocktail_recipe, row |-> row, before |-> ws,
                        calls |-> SubSeq(effect.calls, 1, budget),
                        ret |-> out.ret, error |-> out.error]
            /\ ws' = out.sheet

CallHeader ==
    /\ call = NoCall
    /\ \E r \in RecipeInputs, row \in StartRowInputs \cup {NoRow} :
          CallWriter("write_cocktail_header_return_next_row", r, row,
                     write_cocktail_header_return_next_row(r, ws, row))
    /\ UNCHANGED <<recipe_vars, lookup_vars, main_vars>>

CallIngredients ==
    /\ call = NoCall
    /\ \E r \in RecipeInputs, row \in StartRowInputs \cup {NoRow} :
          CallWriter("write_cocktail_ingredients_into_spreadsheet_return_next_row", r, row,
                     write_cocktail_ingredients_into_spreadsheet_return_next_row(r, ws, row))
    /\ UNCHANGED <<recipe_vars, lookup_vars, main_vars>>

CallInstructions ==
    /\ call = NoCall
    /\ \E r \in RecipeInputs, row \in StartRowInputs \cup {NoRow} :
          CallWriter("write_cocktail_instructions_return_next_row", r, row,
                     write_cocktail_instructions_return_next_row(r, ws, row))
    /\ UNCHANGED <<recipe_vars, lookup_vars, main_vars>>

\* The lookup is made against FilterDB and SearchDB.
CallNames ==
    /\ call = NoCall
    /\ \E ingredient \in DOMAIN FilterDB, limit \in 0..MaxLimit, row \in StartRowInputs \cup {NoRow} :
          LET effect == write_cocktail_names_based_on_ingredient_return_next_row(
                            ingredient, ws, row, limit, FilterDB, SearchDB)
          IN  \E budget \in 0..Len(effect.calls) :
                LET out == Run(ws, effect, budget)
                IN  /\ call' = [op |-> "write_cocktail_names_based_on_ingredient_return_next_row",
                                ingredient |-> ingredient, limit |-> limit, row |-> row,
                                before |-> ws, calls |-> SubSeq(effect.calls, 1, budget),
                                ret |-> out.ret, error |-> out.error]
                    /\ ws' = out.sheet
    /\ UNCHANGED <<recipe_vars, lookup_vars, main_vars>>

SeparatorInputs == {ZERO, <<"-">>, <<>>}

CallSeparator ==
    /\ call = NoCall
    /\ \E row \in StartRowInputs, width \in 0..3, separator \in SeparatorInputs :
          LET effect == Effect(write_separator_line(row, width, separator), NoRow, "none")
          IN  \E budget \in 0..Len(effect.calls) :
                LET out == Run(ws, effect, budget)
                IN  /\ call' = [op |-> "write_separator_line",
                                row |-> row, width |-> width, separator |-> separator,
                                before |-> ws, calls |-> SubSeq(effect.calls, 1, budget),
                                ret |-> out.ret, error |-> out.error]
                    /\ ws' = out.sheet
    /\ UNCHANGED <<recipe_vars, lookup_vars, main_vars>>

NextGrid ==
    \/ CallFind \/ CallHeader \/ CallIngredients \/ CallInstructions
    \/ CallNames \/ CallSeparator

SpecGrid == InitGrid /\ [][NextGrid]_vars

(* find_next_empty_row_index pass by pass: `row` is the candidate of the *)
(* `while True` loop of lines 158-170                                   *)

SameRow(row) == row

\* row += 1 (lines 168 and 170)
NextCandidate(row) == row + 1

InitScan == ws \in SheetInputs /\ call = NoCall /\ RecipeIdle /\ LookupIdle /\ MainIdle

\* Line 157
ScanStart ==
    /\ call = NoCall
    /\ \E below \in 0..MaxRowsBelow, cells \in 1..3, start \in StartRowInputs :
          call' = [op |-> "scan",
                   empty_rows_below |-> below,
                   min_horizontal_empty_cells |-> cells,
                   start_index |-> start,
                   row |-> start, ret |-> NoRow]
    /\ UNCHANGED <<ws, recipe_vars, lookup_vars, main_vars>>

\* Lines 159-170, one pass: return the candidate when it is empty and no
\* row of range(row + 1, empty_rows_below + 1) is found not empty, else go
\* on to the next candidate.
ScanPass ==
    /\ call # NoCall
    /\ call.ret = NoRow
    /\ LET satisfies_requirements ==
               \A row_below \in (call.row + 1)..call.empty_rows_below :
                   is_row_empty(ws, row_below, call.min_horizontal_empty_cells)
       IN  IF is_row_empty(ws, call.row, call.min_horizontal_empty_cells) /\ satisfies_requirements
           THEN call' = [call EXCEPT !.ret = call.row]
           ELSE call' = [call EXCEPT !.row = NextCandidate(call.row)]
    /\ UNCHANGED <<ws, recipe_vars, lookup_vars, main_vars>>

NextScan == ScanStart \/ ScanPass

\* The call, once made, runs on: a pass is taken as long as one can be.
SpecScan == InitScan /\ [][NextScan]_vars /\ WF_vars(NextScan)

(* Block writers called one after another on one sheet, each given the row *)
(* the one before returned, as lines 232-235 and 244-246 do                *)

MaxBlocks == 2

\* Sheets whose rows 1..MaxGridRow all hold the same cells.
ThreadSheetInputs == {SheetOf([r \in 1..MaxGridRow |-> row]) : row \in RowInputs}

InitThread == ws \in ThreadSheetInputs /\ call = NoCall /\ RecipeIdle /\ LookupIdle /\ MainIdle

\* The blocks written so far, and the rows the next call may be given: any
\* for the first, the row last returned for the others.
Blocks == IF call = NoCall THEN <<>> ELSE Append(call.blocks, [row |-> call.row, ret |-> call.ret, sheet |-> ws])
NextRows == IF call = NoCall THEN StartRowInputs ELSE {call.ret}
CanWriteBlock ==
    IF call = NoCall THEN TRUE ELSE call.error = "none" /\ Len(call.blocks) + 1 < MaxBlocks

WriteBlock(op, row, effect) ==
    \E budget \in 0..Len(effect.calls) :
        LET out == Run(ws, effect, budget)
        IN  /\ call' = [op |-> op, row |-> row, before |-> ws,
                        calls |-> SubSeq(effect.calls, 1, budget),
                        ret |-> out.ret, error |-> out.error, blocks |-> Blocks]
            /\ ws' = out.sheet

ThreadIngredients ==
    /\ CanWriteBlock
    /\ \E r \in RecipeInputs, row \in NextRows :
          WriteBlock("write_cocktail_ingredients_into_spreadsheet_return_next_row", row,
                     write_cocktail_ingredients_into_spreadsheet_return_next_row(r, ws, row))
    /\ UNCHANGED <<recipe_vars, lookup_vars, main_vars>>

ThreadInstructions ==
    /\ CanWriteBlock
    /\ \E r \in RecipeInputs, row \in NextRows :
          WriteBlock("write_cocktail_instructions_return_next_row", row,
                     write_cocktail_instructions_return_next_row(r, ws, row))
    /\ UNCHANGED <<recipe_vars, lookup_vars, main_vars>>

ThreadNames ==
    /\ CanWriteBlock
    /\ \E ingredient \in DOMAIN FilterDB, limit \in 0..MaxLimit, row \in NextRows :
          WriteBlock("write_cocktail_names_based_on_ingredient_return_next_row", row,
                     write_cocktail_names_based_on_ingredient_return_next_row(
                         ingredient, ws, row, limit, FilterDB, SearchDB))
    /\ UNCHANGED <<recipe_vars, lookup_vars, main_vars>>

NextThread == ThreadIngredients \/ ThreadInstructions \/ ThreadNames

SpecThread == InitThread /\ [][NextThread]_vars

(* __main__ *)

MaxRateLimitHits == 2

DrinkRequests == {<<"Martini">>, <<"Daiquiri">>}
IngredientRequests == DOMAIN FilterDB

\* Lines 219-227: the three sheets with their title rows, the cursors at 2.
InitMain ==
    /\ pc = "drinks"
    /\ drinks_to_insert \in SUBSET DrinkRequests
    /\ ingredients_to_insert \in SUBSET IngredientRequests
    /\ requested = [drinks |-> drinks_to_insert, ingredients |-> ingredients_to_insert]
    /\ next_empty_row_ingredient = 2
    /\ next_empty_row_instructions = 2
    /\ next_empty_row_drink_by_ingredient = 2
    /\ ingredients_sheet = SheetOf(<<<<<<"Drink Name">>, <<"Ingredient">>, <<"Amount">>>>>>)
    /\ instructions_sheet = SheetOf(<<<<<<"Drink Name">>, <<"Instruction">>, <<>>>>>>)
    /\ drink_by_ingredient_sheet = SheetOf(<<<<<<"Ingredient">>, <<"Drink Names">>, <<>>>>>>)
    /\ attempts = <<>>
    /\ rate_limit_hits = 0
    /\ RecipeIdle /\ LookupIdle /\ GridIdle

\* The update_cell calls of one iteration that were accepted, with their sheet.
Written(sheet_name, effect, budget) ==
    [i \in 1..Min(budget, Len(effect.calls)) |->
        <<sheet_name, effect.calls[i][1], effect.calls[i][2], effect.calls[i][3]>>]

Cursors ==
    [ingredient |-> next_empty_row_ingredient,
     instructions |-> next_empty_row_instructions,
     drink_by_ingredient |-> next_empty_row_drink_by_ingredient]

Attempt(loop, unit, outcome, writes, after, pending) ==
    [loop |-> loop, unit |-> unit, outcome |-> outcome, writes |-> writes,
     before |-> Cursors, after |-> after, requeued |-> unit \in pending]

\* Line 228 as committed: `drinks_to_insert and False` is false whatever the
\* set holds, so the body of the loop is never entered.
DrinksLoopSkipped ==
    /\ pc = "drinks"
    /\ ~(drinks_to_insert # {} /\ FALSE)
    /\ pc' = "ingredients"
    /\ UNCHANGED <<drinks_to_insert, ingredients_to_insert, requested,
                   next_empty_row_ingredient, next_empty_row_instructions,
                   next_empty_row_drink_by_ingredient,
                   ingredients_sheet, instructions_sheet, drink_by_ingredient_sheet,
                   attempts, rate_limit_hits, recipe_vars, lookup_vars, grid_vars>>

\* Lines 229-240, one pass: pop a name, look it up (outside the try), write
\* its ingredient block and then its instruction block, each call assigning
\* its cursor as it returns; on APIError put the name back.  `budget` is the
\* number of update_cell calls accepted before the rate limit is hit.
DrinksPass ==
    /\ pc = "drinks"
    /\ drinks_to_insert # {}
    /\ \E name \in drinks_to_insert :
        LET cocktail == get_drink_by_name(name, SearchDB)
            popped == drinks_to_insert \ {name}
        IN  IF ~IsRecipe(cocktail)
            THEN /\ pc' = "crashed"
                 /\ drinks_to_insert' = popped
                 /\ attempts' = Append(attempts,
                        Attempt("drinks", name, cocktail.error, <<>>, Cursors, popped))
                 /\ UNCHANGED <<next_empty_row_ingredient, next_empty_row_instructions,
                                ingredients_sheet, instructions_sheet, rate_limit_hits>>
            ELSE LET first == write_cocktail_ingredients_into_spreadsheet_return_next_row(
                                  cocktail, ingredients_sheet, next_empty_row_ingredient)
                     second == write_cocktail_instructions_return_next_row(
                                  cocktail, instructions_sheet, next_empty_row_instructions)
                     total == Len(first.calls) + Len(second.calls)
                 IN  \E budget \in 0..total :
                        LET out1 == Run(ingredients_sheet, first, budget)
                            out2 == Run(instructions_sheet, second, budget - Len(first.calls))
                            writes == Written("ingredients", first, budget) \o
                                      (IF out1.error = "none"
                                       THEN Written("instructions", second, budget - Len(first.calls))
                                       ELSE <<>>)
                        IN  /\ budget < total => rate_limit_hits < MaxRateLimitHits
                            /\ ingredients_sheet' = out1.sheet
                            /\ next_empty_row_ingredient' =
                                  IF out1.error = "none" THEN out1.ret ELSE next_empty_row_ingredient
                            /\ instructions_sheet' =
                                  IF out1.error = "none" THEN out2.sheet ELSE instructions_sheet
                            /\ next_empty_row_instructions' =
                                  IF out1.error = "none" /\ out2.error = "none"
                                  THEN out2.ret ELSE next_empty_row_instructions
                            /\ drinks_to_insert' = IF budget < total THEN popped \cup {name} ELSE popped
                            /\ rate_limit_hits' = IF budget < total THEN rate_limit_hits + 1 ELSE rate_limit_hits
                            /\ attempts' = Append(attempts,
                                  Attempt("drinks", name,
                                          IF budget < total THEN "APIError" ELSE "written",
                                          writes,
                                          [Cursors EXCEPT !.ingredient = next_empty_row_ingredient',
                                                          !.instructions = next_empty_row_instructions'],
                                          drinks_to_insert'))
                            /\ pc' = pc
    /\ UNCHANGED <<ingredients_to_insert, requested, next_empty_row_drink_by_ingredient,
                   drink_by_ingredient_sheet, recipe_vars, lookup_vars, grid_vars>>

\* Line 228 with the set as the whole condition: the loop ends when it is empty.
DrinksLoopEnds ==
    /\ pc = "drinks"
    /\ drinks_to_insert = {}
    /\ pc' = "ingredients"
    /\ UNCHANGED <<drinks_to_insert, ingredients_to_insert, requested,
                   next_empty_row_ingredient, next_empty_row_instructions,
                   next_empty_row_drink_by_ingredient,
                   ingredients_sheet, instructions_sheet, drink_by_ingredient_sheet,
                   attempts, rate_limit_hits, recipe_vars, lookup_vars, grid_vars>>

\* Lines 242-250, one pass: pop an ingredient, write its block (the lookup is
\* inside the writer, after the header), assign the cursor on return; on
\* APIError put the ingredient back.  Any other exception ends the script.
IngredientsPass ==
    /\ pc = "ingredients"
    /\ ingredients_to_insert # {}
    /\ \E main_ingredient \in ingredients_to_insert :
        LET popped == ingredients_to_insert \ {main_ingredient}
            effect == write_cocktail_names_based_on_ingredient_return_next_row(
                          main_ingredient, drink_by_ingredient_sheet,
                          next_empty_row_drink_by_ingredient, 5, FilterDB, SearchDB)
        IN  \E budget \in 0..Len(effect.calls) :
                LET out == Run(drink_by_ingredient_sheet, effect, budget)
                IN  /\ out.error = "APIError" => rate_limit_hits < MaxRateLimitHits
                    /\ drink_by_ingredient_sheet' = out.sheet
                    /\ next_empty_row_drink_by_ingredient' =
                          IF out.error = "none" THEN out.ret ELSE next_empty_row_drink_by_ingredient
                    /\ ingredients_to_insert' =
                          IF out.error = "APIError" THEN popped \cup {main_ingredient} ELSE popped
                    /\ rate_limit_hits' =
                          IF out.error = "APIError" THEN rate_limit_hits + 1 ELSE rate_limit_hits
                    /\ pc' = IF out.error \in {"none", "APIError"} THEN pc ELSE "crashed"
                    /\ attempts' = Append(attempts,
                          Attempt("ingredients", main_ingredient,
                                  IF out.error = "none" THEN "written" ELSE out.error,
                                  Written("drink_by_ingredient", effect, budget),
                                  [Cursors EXCEPT !.drink_by_ingredient =
                                                      next_empty_row_drink_by_ingredient'],
                                  ingredients_to_insert'))
    /\ UNCHANGED <<drinks_to_insert, requested, next_empty_row_ingredient,
                   next_empty_row_instructions, ingredients_sheet, instructions_sheet,
                   recipe_vars, lookup_vars, grid_vars>>

\* Line 241: the set is empty and the script ends.
IngredientsLoopEnds ==
    /\ pc = "ingredients"
    /\ ingredients_to_insert = {}
    /\ pc' = "done"
    /\ UNCHANGED <<drinks_to_insert, ingredients_to_insert, requested,
                   next_empty_row_ingredient, next_empty_row_instructions,
                   next_empty_row_drink_by_ingredient,
                   ingredients_sheet, instructions_sheet, drink_by_ingredient_sheet,
                   attempts, rate_limit_hits, recipe_vars, lookup_vars, grid_vars>>

\* The script as committed.
Next == DrinksLoopSkipped \/ IngredientsPass \/ IngredientsLoopEnds

Spec == InitMain /\ [][Next]_vars

\* The script with the drinks loop running on its set, as its body is written
\* to run: line 228 without the `and False`.
NextDrinksLoop == DrinksPass \/ DrinksLoopEnds \/ IngredientsPass \/ IngredientsLoopEnds

SpecDrinksLoop == InitMain /\ [][NextDrinksLoop]_vars

(* get_drinks_based_on_ingredient against each reply of the filter request, *)
(* the names being looked up in SearchDB                                    *)

LookupIngredient == <<"Gin">>

FilterInputs ==
    {FilterReply(TRUE, NoKey), FilterReply(FALSE, NoKey), FilterReply(FALSE, NullDrinks)}
        \cup {FilterReply(FALSE, Drinks(l)) : l \in SeqsUpTo(DOMAIN SearchDB, MaxStubs)}

InitFilter ==
    /\ filter_response \in FilterInputs /\ drinks = Pending
    /\ response = NoKey /\ drink = Pending
    /\ RecipeIdle /\ GridIdle /\ MainIdle

LookupByIngredient ==
    /\ drinks = Pending
    /\ \E limit \in 0..MaxLimit :
          drinks' = [limit |-> limit,
                     result |-> get_drinks_based_on_ingredient(
                                    LookupIngredient, limit,
                                    [i \in {LookupIngredient} |-> filter_response], SearchDB)]
    /\ UNCHANGED <<filter_response, response, drink, recipe_vars, grid_vars, main_vars>>

NextFilter == LookupByIngredient

SpecFilter == InitFilter /\ [][NextFilter]_vars


----------------------------------------------------------------------------
(* Claims about the recipe record *)

Constructed == recipe # Pending

\* C4: constructing a CocktailRecipe fails with the malformed-response error
\* (ValueError) whenever one of strDrink, strGlass, strInstructions,
\* strIngredient1..15, strMeasure1..15 is absent from the mapping.
C4_MissingKeyIsMalformed ==
    (Constructed /\ \E k \in RequiredKeysNumbered : k \notin DOMAIN raw)
        => recipe = Raised("ValueError")

WellFormed(resp) == DOMAIN resp = RequiredKeysNumbered

Blank(value) == value = NULL \/ value = <<>>

\* C6: for a well-formed raw response the ingredients of the record hold no
\* entry whose amount is the empty string and no entry for a slot whose
\* ingredient value was null or the empty string.
C6_NoEmptyAmountNoBlankSlot ==
    (Constructed /\ IsRecipe(recipe) /\ WellFormed(raw)) =>
        /\ \A i \in 1..Len(recipe.ingredients) : recipe.ingredients[i][2] # <<>>
        /\ DictKeys(recipe.ingredients) =
              {raw[IngredientKey(n)] : n \in {m \in 1..NumSlots : ~Blank(raw[IngredientKey(m)])}}

\* The places of s where sep starts, and the k-th of them from the left.
Occurrences(s, sep) ==
    {i \in 1..(Len(s) - Len(sep) + 1) : SubSeq(s, i, i + Len(sep) - 1) = sep}
NthOccurrence(s, sep, k) ==
    CHOOSE p \in Occurrences(s, sep) : Cardinality({q \in Occurrences(s, sep) : q < p}) = k - 1

\* The texts between the occurrences of sep (which, for "\r\n" and ". ",
\* cannot overlap), first to last.
Segments(s, sep) ==
    LET m == Cardinality(Occurrences(s, sep))
    IN  [k \in 1..(m + 1) |->
            SubSeq(s,
                   IF k = 1 THEN 1 ELSE NthOccurrence(s, sep, k - 1) + Len(sep),
                   IF k = m + 1 THEN Len(s) ELSE NthOccurrence(s, sep, k) - 1)]

RECURSIVE Join(_, _)
Join(segments, sep) ==
    IF Len(segments) = 0 THEN <<>>
    ELSE IF Len(segments) = 1 THEN segments[1]
    ELSE segments[1] \o sep \o Join(Tail(segments), sep)

\* C7: the instruction list is, when the raw instructions contain "\r\n"
\* anywhere, the segments between the "\r\n" with the empty ones removed,
\* in order; otherwise the segments between the ". ", none removed or
\* trimmed (so that joining them with ". " gives the raw string back).
C7_InstructionsAreReference ==
    (Constructed /\ IsRecipe(recipe)) =>
        LET s == raw[STR_INSTRUCTIONS]
            got == recipe.instructions
        IN  IF Occurrences(s, CRLF) # {}
            THEN /\ got = SelectSeq(Segments(s, CRLF), NonEmpty)
                 /\ \A i \in 1..Len(got) : got[i] # <<>> /\ Occurrences(got[i], CRLF) = {}
            ELSE /\ got = Segments(s, DOT_SP)
                 /\ Join(got, DOT_SP) = s
                 /\ \A i \in 1..Len(got) : Occurrences(got[i], DOT_SP) = {}

\* Line-delimited instructions that also hold a ". ": the empty segment at
\* the front is dropped and the ". " is not split at.
C7_Witness ==
    /\ Constructed /\ IsRecipe(recipe)
    /\ raw[STR_INSTRUCTIONS] = <<CR, LF, DOT, SP>>
    /\ recipe.instructions = <<<<DOT, SP>>>>

\* C8: every constructed record, whichever instruction format its raw
\* response used, has an instruction sequence with no zero-length entry.
C8_NoEmptyInstruction ==
    (Constructed /\ IsRecipe(recipe)) =>
        \A i \in 1..Len(recipe.instructions) : Len(recipe.instructions[i]) # 0

\* The slots of resp that hold an ingredient: present and not "".
NamedSlots(resp) == {n \in 1..NumSlots : ~Blank(Get(resp, IngredientKey(n)))}

\* Where the dict holds key k, and what it maps k to.
IndexOf(d, k) == CHOOSE i \in 1..Len(d) : d[i][1] = k
ValueOf(d, k) == d[IndexOf(d, k)][2]

\* The amount recorded for slot n: strMeasure<n> trimmed, or "To Taste".
SlotAmount(resp, n) ==
    IF Get(resp, MeasureKey(n)) = NULL THEN TO_TASTE ELSE strip(Get(resp, MeasureKey(n)))

\* C13 as stated: every slot 1..15 holding an ingredient has that ingredient
\* mapped to the slot's own amount, trimmed, or to "To Taste" when the
\* amount is absent, and the entries follow the order of the slots.
C13_EverySlotMapsItsAmount ==
    (Constructed /\ IsRecipe(recipe)) =>
        /\ \A n \in NamedSlots(raw) :
              /\ raw[IngredientKey(n)] \in DictKeys(recipe.ingredients)
              /\ ValueOf(recipe.ingredients, raw[IngredientKey(n)]) = SlotAmount(raw, n)
        /\ \A m, n \in NamedSlots(raw) :
              (m < n /\ raw[IngredientKey(m)] # raw[IngredientKey(n)]) =>
                  IndexOf(recipe.ingredients, raw[IngredientKey(m)]) <
                      IndexOf(recipe.ingredients, raw[IngredientKey(n)])

\* The slots whose ingredient no later slot repeats, and those no earlier
\* slot holds.
LastSlots(resp) ==
    {n \in NamedSlots(resp) :
        \A m \in NamedSlots(resp) : m > n => resp[IngredientKey(m)] # resp[IngredientKey(n)]}
FirstSlots(resp) ==
    {n \in NamedSlots(resp) :
        \A m \in NamedSlots(resp) : m < n => resp[IngredientKey(m)] # resp[IngredientKey(n)]}

\* C13, amended: every slot 1..15 holding an ingredient has that ingredient
\* in the mapping; an ingredient is mapped to the amount (trimmed, or
\* "To Taste" when absent) of the last slot that names it, and the entries
\* follow the order of the slots that name each ingredient first.
C13_LastSlotAmountFirstSlotOrder ==
    (Constructed /\ IsRecipe(recipe)) =>
        /\ \A n \in NamedSlots(raw) : raw[IngredientKey(n)] \in DictKeys(recipe.ingredients)
        /\ \A n \in LastSlots(raw) :
              ValueOf(recipe.ingredients, raw[IngredientKey(n)]) = SlotAmount(raw, n)
        /\ \A m, n \in FirstSlots(raw) :
              m < n => IndexOf(recipe.ingredients, raw[IngredientKey(m)]) <
                           IndexOf(recipe.ingredients, raw[IngredientKey(n)])

\* The Mojito reply: Soda water, whose measure is null, is mapped to
\* "To Taste" between Mint and Sugar, and "2-3 oz " is stored trimmed.
C13_Witness ==
    /\ Constructed /\ IsRecipe(recipe)
    /\ raw = MojitoRaw
    /\ recipe.ingredients =
          <<<<<<"Light rum">>, <<"2-3 oz">>>>, <<<<"Lime">>, <<"Juice of 1">>>>,
            <<<<"Mint">>, <<"2-4">>>>, <<<<"Soda water">>, TO_TASTE>>,
            <<<<"Sugar">>, <<"2 tsp">>>>>>

Rendered == rendering # NULL

\* The lines the claim lists for a record, first to last.
ExpectedLines(r) ==
    <<<<"Name:", SP>> \o r.name, <<"Ingredients:">>>>
        \o [k \in 1..Len(r.ingredients) |->
               <<"-", SP>> \o r.ingredients[k][1] \o <<SP, ":", SP>> \o r.ingredients[k][2]]
        \o <<<<"Instructions:">>>>
        \o [k \in 1..Len(r.instructions) |-> Str(k) \o <<")", SP>> \o r.instructions[k]]

\* The rendering cut at its line feeds; the text after the last one is "".
LinesOf(text) == Segments(text, <<LF>>)

\* C14 as stated: the rendering of a record consists of the name line, the
\* "Ingredients:" line, one line per ingredient/amount pair in insertion
\* order, the "Instructions:" line and one line per step, the k-th prefixed
\* by k and ")": 3 + |ingredients| + |instructions| lines and nothing else.
C14_RenderingIsTheListedLines ==
    Rendered =>
        /\ LinesOf(rendering) = ExpectedLines(recipe) \o <<<<>>>>
        /\ Len(LinesOf(rendering)) - 1 = 3 + Len(recipe.ingredients) + Len(recipe.instructions)

\* No text of the record holds a line feed.
SingleLineTexts(r) ==
    /\ LF \notin {r.name[i] : i \in 1..Len(r.name)}
    /\ \A k \in 1..Len(r.ingredients), j \in 1..2 :
          LF \notin {r.ingredients[k][j][i] : i \in 1..Len(r.ingredients[k][j])}
    /\ \A k \in 1..Len(r.instructions) :
          LF \notin {r.instructions[k][i] : i \in 1..Len(r.instructions[k])}

\* C14, amended: the rendering is the name line, the "Ingredients:" line, one
\* "- ingredient : amount" text per pair, the "Instructions:" line and one
\* "k) step" text per step, each followed by a line feed and nothing else;
\* when no name, ingredient, amount or step holds a line feed these are its
\* lines, 3 + |ingredients| + |instructions| of them.
C14_RenderingIsTheListedTexts ==
    Rendered =>
        /\ rendering = Join(ExpectedLines(recipe), <<LF>>) \o <<LF>>
        /\ SingleLineTexts(recipe) =>
              /\ LinesOf(rendering) = ExpectedLines(recipe) \o <<<<>>>>
              /\ Len(LinesOf(rendering)) - 1 =
                     3 + Len(recipe.ingredients) + Len(recipe.instructions)

\* The Mojito record: five ingredient lines and two numbered steps.
C14_Witness ==
    /\ Rendered /\ raw = MojitoRaw
    /\ Len(LinesOf(rendering)) - 1 = 10
    /\ LinesOf(rendering)[6] = <<"-", SP, "Soda water", SP, ":", SP, "To Taste">>
    /\ LinesOf(rendering)[10] = <<"2", ")", SP, "Top", DOT>>

----------------------------------------------------------------------------
(* Claims about the lookups *)

\* C5: get_drink_by_name fails with the not-found error (ValueError) when the
\* reply's "drinks" is absent or null and when it is an empty list.
C5_NoResultsIsNotFound ==
    (drink # Pending /\ (DrinksIsNone(response) \/ response.list = <<>>))
        => drink = Raised("ValueError")

----------------------------------------------------------------------------
(* Claims about the scanner and the writers *)

Called(op) == call.op = op
Returned(op) == call.op = op /\ call.error = "none"

\* C3: the row r that find_next_empty_row_index returns is empty (its first
\* min_horizontal_empty_cells cells are unset) and so is each of the rows
\* r+1 .. r+empty_rows_below.
C3_ReturnedRowAndRowsBelowEmpty ==
    Called("find_next_empty_row_index") =>
        \A k \in 0..call.empty_rows_below :
            is_row_empty(ws, call.ret + k, call.min_horizontal_empty_cells)

\* The two sheets show the same value in every cell.
SameCells(a, b) == \A p \in DOMAIN a \cup DOMAIN b : cell(a, p[1], p[2]) = cell(b, p[1], p[2])

\* C9: write_cocktail_header_return_next_row with an explicit row r and no
\* failed write: for r = 1 or 2 its only write is the name at (r, 1) and it
\* returns r+1; for r >= 3 it writes the separator "0" to (r, 1..3), then the
\* name at (r+1, 1), and returns r+2.  Nothing else on the sheet changes.
C9_HeaderRows ==
    (Returned("write_cocktail_header_return_next_row") /\ call.row # NoRow) =>
        LET r == call.row
            name == call.recipe.name
        IN  IF r \in {1, 2}
            THEN /\ call.calls = <<<<r, 1, name>>>>
                 /\ call.ret = r + 1
                 /\ SameCells(ws, update_cell(call.before, r, 1, name))
            ELSE /\ call.calls = <<<<r, 1, ZERO>>, <<r, 2, ZERO>>, <<r, 3, ZERO>>,
                                   <<r + 1, 1, name>>>>
                 /\ call.ret = r + 2
                 /\ SameCells(ws, update_cell(update_cell(update_cell(update_cell(
                        call.before, r, 1, ZERO), r, 2, ZERO), r, 3, ZERO), r + 1, 1, name))

\* The header written at the first row below the reserved margin.
C9_Witness ==
    /\ Returned("write_cocktail_header_return_next_row")
    /\ call.row = 3 /\ call.ret = 5
    /\ cell(ws, 3, 3) = ZERO /\ cell(ws, 4, 1) = call.recipe.name

\* C10: write_cocktail_ingredients_into_spreadsheet_return_next_row for a
\* record of n ingredients, started at a row r >= 3, no write failing, leaves
\* the separator in row r, the name at (r+1, 1), the k-th ingredient at
\* (r+1+k, 2) with its amount at (r+1+k, 3), makes no other write and
\* returns r+2+n.
C10_IngredientBlock ==
    (/\ Returned("write_cocktail_ingredients_into_spreadsheet_return_next_row")
     /\ call.row # NoRow /\ call.row >= 3) =>
        LET r == call.row
            n == Len(call.recipe.ingredients)
        IN  /\ call.ret = r + 2 + n
            /\ \A c \in 1..3 : cell(ws, r, c) = ZERO
            /\ cell(ws, r + 1, 1) = call.recipe.name
            /\ \A k \in 1..n :
                  /\ cell(ws, r + 1 + k, 2) = call.recipe.ingredients[k][1]
                  /\ cell(ws, r + 1 + k, 3) = call.recipe.ingredients[k][2]
            /\ {<<w[1], w[2]>> : w \in {call.calls[i] : i \in 1..Len(call.calls)}} =
                  {<<r, c>> : c \in 1..3} \cup {<<r + 1, 1>>}
                      \cup {<<r + 1 + k, c>> : k \in 1..n, c \in 2..3}
            /\ \A p \in DOMAIN call.before \cup DOMAIN ws :
                  (p[1] < r \/ p[1] >= r + 2 + n) => cell(ws, p[1], p[2]) = cell(call.before, p[1], p[2])

\* Five ingredients written from row 5: rows 7-11, and 12 returned.
C10_Witness ==
    /\ Returned("write_cocktail_ingredients_into_spreadsheet_return_next_row")
    /\ call.row = 5 /\ Len(call.recipe.ingredients) = 5 /\ call.ret = 12
    /\ cell(ws, 11, 2) = <<"Sugar">>

\* Row r is empty and so are the `below` rows under it.
Qualifies(sheet, r, below, cells) == \A k \in 0..below : is_row_empty(sheet, r + k, cells)

\* C16: find_next_empty_row_index returns the smallest row >= start_index
\* that is empty and is followed by empty_rows_below empty rows.
C16_SmallestQualifyingRow ==
    Called("find_next_empty_row_index") =>
        /\ call.ret >= call.start_index
        /\ Qualifies(ws, call.ret, call.empty_rows_below, call.min_horizontal_empty_cells)
        /\ \A r \in call.start_index..(call.ret - 1) :
              ~Qualifies(ws, r, call.empty_rows_below, call.min_horizontal_empty_cells)

\* The case the claim singles out: rows 1 and 2 not empty, the rows from 3
\* on empty, one row below, three cells, from row 1.
C16_RowsOneAndTwoTaken ==
    (/\ Called("find_next_empty_row_index")
     /\ call.start_index = 1 /\ call.empty_rows_below = 1 /\ call.min_horizontal_empty_cells = 3
     /\ ~is_row_empty(ws, 1, 3) /\ ~is_row_empty(ws, 2, 3)
     /\ \A p \in DOMAIN ws : p[1] < 3) =>
        call.ret = 3

\* C18: write_cocktail_names_based_on_ingredient_return_next_row with an
\* explicit row r, a lookup that yields m records and no failed write: for
\* r >= 3 it writes the separator "0" to (r, 1..2), the ingredient at
\* (r+1, 1), the k-th record's name at (r+1+k, 2) for k = 1..m in lookup
\* order, and returns r+2+m; for r = 1 or 2 it writes no separator, the
\* ingredient at (r, 1), the names below it, and returns r+1+m.
C18_NamesBlock ==
    (Returned("write_cocktail_names_based_on_ingredient_return_next_row") /\ call.row # NoRow) =>
        LET r == call.row
            found == get_drinks_based_on_ingredient(call.ingredient, call.limit, FilterDB, SearchDB)
            m == Len(found.list)
            top == IF r >= 3 THEN r + 1 ELSE r
        IN  /\ call.calls =
                  (IF r >= 3 THEN <<<<r, 1, ZERO>>, <<r, 2, ZERO>>>> ELSE <<>>)
                      \o <<<<top, 1, call.ingredient>>>>
                      \o [k \in 1..m |-> <<top + k, 2, found.list[k].name>>]
            /\ call.ret = top + 1 + m
            /\ SameCells(ws, Apply(call.before, call.calls, Len(call.calls)))

\* Gin from row 3 with a limit of 3: both of its drinks, rows 5 and 6.
C18_Witness ==
    /\ Returned("write_cocktail_names_based_on_ingredient_return_next_row")
    /\ call.ingredient = <<"Gin">> /\ call.limit = 3 /\ call.row = 3 /\ call.ret = 7
    /\ cell(ws, 3, 2) = ZERO /\ cell(ws, 3, 3) = cell(call.before, 3, 3)
    /\ cell(ws, 4, 1) = <<"Gin">>
    /\ cell(ws, 5, 2) = <<"Martini">> /\ cell(ws, 6, 2) = <<"Tom Collins">>

\* C20: write_separator_line(ws, row, width, separator), no write failing,
\* sets the cells (row, 1) .. (row, width) to the separator and changes no
\* other cell; with width >= 1 and the separator "0" the row is then not
\* empty for is_row_empty, whatever the number of cells asked for, and
\* find_next_empty_row_index does not return it.
C20_SeparatorRow ==
    Returned("write_separator_line") =>
        /\ \A p \in DOMAIN ws \cup DOMAIN call.before \cup {<<call.row, c>> : c \in 1..3} :
              cell(ws, p[1], p[2]) =
                  IF p[1] = call.row /\ p[2] \in 1..call.width
                  THEN call.separator ELSE cell(call.before, p[1], p[2])
        /\ (call.width >= 1 /\ call.separator = ZERO) =>
              /\ \A cells \in 1..3 : ~is_row_empty(ws, call.row, cells)
              /\ \A below \in 0..MaxRowsBelow, cells \in 1..3, start \in StartRowInputs :
                    find_next_empty_row_index(ws, below, cells, start) # call.row

\* A separator of width 2 written over an empty row 4: a scan from row 4
\* passes it.
C20_Witness ==
    /\ Returned("write_separator_line")
    /\ call.row = 4 /\ call.width = 2 /\ call.separator = ZERO
    /\ is_row_empty(call.before, 4, 3)
    /\ cell(ws, 4, 2) = ZERO /\ cell(ws, 4, 3) = <<>>
    /\ find_next_empty_row_index(ws, 1, 3, 4) = 5

ScanReturned == call # NoCall /\ call.ret # NoRow

\* The pass-by-pass scan returns what find_next_empty_row_index is defined
\* to return.
ScanAgrees ==
    ScanReturned =>
        call.ret = find_next_empty_row_index(ws, call.empty_rows_below,
                                             call.min_horizontal_empty_cells, call.start_index)

\* C19: each pass of find_next_empty_row_index either returns its candidate
\* row or moves to the row just below it, never back; no pass changes the
\* sheet; and on a sheet with finitely many set cells the scan returns.
C19_ScanForwardAndReturns ==
    /\ [][/\ ws' = ws
          /\ (call # NoCall /\ call' # NoCall) =>
                \/ call'.ret = call.row /\ call'.row = call.row
                \/ call'.ret = NoRow /\ call'.row = call.row + 1]_vars
    /\ <>ScanReturned

\* A scan from row 1 that passed two rows and returned the third.
C19_Witness ==
    /\ ScanReturned
    /\ call.start_index = 1 /\ call.ret = 3
    /\ ~is_row_empty(ws, 1, call.min_horizontal_empty_cells)
    /\ ~is_row_empty(ws, 2, call.min_horizontal_empty_cells)

\* The rows the update_cell calls of the last call were made in.
RowsWritten == {call.calls[i][1] : i \in 1..Len(call.calls)}

\* C17: a block writer called with row s that returns t, no write failing,
\* writes in each of the rows s .. t-1 and in no other row, and leaves every
\* cell outside those rows as it was; when it was given the row the block
\* writer before it returned, its rows start where the rows of that block
\* end, the blocks written so far lie one under the other in the order
\* written, and each still holds the cells its writer left.
C17_BlocksOneUnderTheOther ==
    (call # NoCall /\ call.error = "none") =>
        LET s == call.row
            t == call.ret
        IN  /\ s < t
            /\ RowsWritten = s..(t - 1)
            /\ \A p \in DOMAIN ws \cup DOMAIN call.before :
                  p[1] \notin s..(t - 1) => cell(ws, p[1], p[2]) = cell(call.before, p[1], p[2])
            /\ \A b \in 1..Len(call.blocks) :
                  LET block == call.blocks[b]
                  IN  /\ block.row < block.ret /\ block.ret <= s
                      /\ b = Len(call.blocks) => block.ret = s
                      /\ b < Len(call.blocks) => block.ret = call.blocks[b + 1].row
                      /\ \A p \in DOMAIN ws \cup DOMAIN block.sheet :
                            p[1] \in block.row..(block.ret - 1) =>
                                cell(ws, p[1], p[2]) = cell(block.sheet, p[1], p[2])

\* The Martini's instruction block in rows 2-4, then Gin's drinks in rows
\* 5-8 under it.
C17_Witness ==
    /\ call # NoCall /\ call.error = "none"
    /\ call.op = "write_cocktail_names_based_on_ingredient_return_next_row"
    /\ Len(call.blocks) = 1
    /\ call.blocks[1].row = 2 /\ call.blocks[1].ret = 5
    /\ call.row = 5 /\ call.ret = 9
    /\ cell(ws, 2, 1) = <<"Martini">> /\ cell(ws, 4, 2) = <<"Strain">>
    /\ cell(ws, 5, 1) = ZERO /\ cell(ws, 6, 1) = <<"Gin">> /\ cell(ws, 8, 2) = <<"Tom Collins">>

----------------------------------------------------------------------------
(* Claims about the batch loops *)

SheetNamed(sheet_name) ==
    CASE sheet_name = "ingredients" -> ingredients_sheet
      [] sheet_name = "instructions" -> instructions_sheet
      [] OTHER -> drink_by_ingredient_sheet

\* The rows of a sheet whose column 1 holds `title`: the blocks headed by it.
TitleRows(sheet, title) == {p[1] : p \in {q \in DOMAIN sheet : q[2] = 1 /\ sheet[q] = title}}

\* C1: whatever writes hit the rate limit, once the loops have finished each
\* requested drink heads exactly one block of the ingredient sheet and one
\* of the instruction sheet, each requested ingredient heads exactly one
\* block of the ingredient-to-drink sheet, and every cell written by a pass
\* that succeeded still holds what that pass wrote.
C1_OneBlockPerItem ==
    pc = "done" =>
        /\ \A d \in requested.drinks :
              /\ Cardinality(TitleRows(ingredients_sheet, d)) = 1
              /\ Cardinality(TitleRows(instructions_sheet, d)) = 1
        /\ \A i \in requested.ingredients :
              Cardinality(TitleRows(drink_by_ingredient_sheet, i)) = 1
        /\ \A k \in 1..Len(attempts) :
              attempts[k].outcome = "written" =>
                  \A n \in 1..Len(attempts[k].writes) :
                      LET w == attempts[k].writes[n]
                      IN  cell(SheetNamed(w[1]), w[2], w[3]) = w[4]

\* The cursors a pass of either loop passes to its writers.
UsedCursors(loop, cursors) ==
    IF loop = "drinks" THEN <<cursors.ingredient, cursors.instructions>>
    ELSE <<cursors.drink_by_ingredient>>

\* C2: when a write of a pass raises the rate-limit signal, every cursor used
\* for the unit has the value it had as the pass began, the unit is back in
\* its set, and the next pass over that unit starts at the same rows.
C2_RetryStartsAtSameRows ==
    \A i \in 1..Len(attempts) :
        attempts[i].outcome = "APIError" =>
            /\ UsedCursors(attempts[i].loop, attempts[i].after) =
                  UsedCursors(attempts[i].loop, attempts[i].before)
            /\ attempts[i].requeued
            /\ \A j \in (i + 1)..Len(attempts) :
                  (/\ attempts[j].unit = attempts[i].unit
                   /\ \A k \in (i + 1)..(j - 1) : attempts[k].unit # attempts[i].unit) =>
                      UsedCursors(attempts[j].loop, attempts[j].before) =
                          UsedCursors(attempts[i].loop, attempts[i].before)

\* C11: in the batch loops a not-found failure (ValueError of a lookup that
\* has no results) for one item does not end the script: the item is left
\* out and the passes over the items still pending go on.
C11_NotFoundIsSkipped ==
    \A i \in 1..Len(attempts) :
        attempts[i].outcome = "ValueError" => pc # "crashed"

\* A pass over the unit wrote its block(s) in full.
UnitWritten(loop, unit) ==
    \E i \in 1..Len(attempts) :
        attempts[i].loop = loop /\ attempts[i].unit = unit /\ attempts[i].outcome = "written"

Ended == pc \in {"done", "crashed"}

\* Every requested unit has results at the remote source, so that only the
\* rate limit can keep its block from being written.
AllFound ==
    /\ \A d \in requested.drinks : IsRecipe(get_drink_by_name(d, SearchDB))
    /\ \A i \in requested.ingredients :
          get_drinks_based_on_ingredient(i, 5, FilterDB, SearchDB).error = "none"

\* C15: when every requested unit can be looked up, a unit whose pass hit
\* the rate limit is put back every time, every pass either writes its unit
\* for good or hits the rate limit (so that the loops end once the rate
\* limit is no longer signalled), and the script ends with both pending sets
\* empty and every requested unit written.
C15_EndsWithEveryUnitWritten ==
    AllFound =>
    /\ \A i \in 1..Len(attempts) : attempts[i].outcome = "APIError" => attempts[i].requeued
    /\ Len(attempts) <= Cardinality(requested.drinks) + Cardinality(requested.ingredients)
                            + rate_limit_hits
    /\ Ended =>
          /\ pc = "done"
          /\ drinks_to_insert = {} /\ ingredients_to_insert = {}
          /\ \A d \in requested.drinks : UnitWritten("drinks", d)
          /\ \A i \in requested.ingredients : UnitWritten("ingredients", i)

\* The same for the runs that request no drink and only ingredients the
\* remote source has drinks for.
IngredientsLoopCompletes ==
    requested.drinks = {} => C15_EndsWithEveryUnitWritten

----------------------------------------------------------------------------
(* Claims about the lookup by ingredient *)

Looked == drinks # Pending

\* C12: get_drinks_based_on_ingredient with limit >= 1, on a filter reply
\* listing c >= 1 name stubs of which the first min(limit, c) can all be
\* looked up, returns exactly min(limit, c) records, the k-th being what
\* get_drink_by_name returns for the k-th stub's name; on an empty body, or a
\* reply whose "drinks" is absent or null, it raises ValueError.
C12_FirstNamesResolvedInOrder ==
    Looked =>
        LET stubs == filter_response.data.list
            c == Len(stubs)
            n == IF drinks.limit < c THEN drinks.limit ELSE c
        IN  /\ (/\ ~filter_response.empty_body /\ ~DrinksIsNone(filter_response.data)
                /\ drinks.limit >= 1 /\ c >= 1
                /\ \A k \in 1..n : IsRecipe(get_drink_by_name(stubs[k], SearchDB))) =>
                   /\ drinks.result.error = "none"
                   /\ Len(drinks.result.list) = n
                   /\ \A k \in 1..n :
                         drinks.result.list[k] = get_drink_by_name(stubs[k], SearchDB)
            /\ (filter_response.empty_body \/ DrinksIsNone(filter_response.data)) =>
                   drinks.result.error = "ValueError"

\* Three stubs and a limit of two: the first two, in the reply's order.
C12_Witness ==
    /\ Looked
    /\ filter_response = FilterReply(FALSE, Drinks(<<<<"Tom Collins">>, <<"Mojito">>, <<"Martini">>>>))
    /\ drinks.limit = 2
    /\ Len(drinks.result.list) = 2
    /\ drinks.result.list[1].name = <<"Tom Collins">>
    /\ drinks.result.list[2].name = <<"Mojito">>

====
